---- MODULE Spec2Model ----
(***************************************************************************)
(* A model of tap-persona's incremental sync: the cursor paginator         *)
(* (PersonaPaginator), the request parameters, the response normalizer     *)
(* (parse_response), the boundary tracker (post_process) and the state     *)
(* merge policy (_finalize_state) of src/tap_persona/streams.py, driven    *)
(* page by page the way the Singer SDK's request loop drives a RESTStream. *)
(*                                                                         *)
(* Data.  A Python dict is a function whose DOMAIN is the set of its keys. *)
(* A field name or state key is the sequence of its words and of the       *)
(* separators "-" and "_" between them ("created-at" is <<"created", "-",  *)
(* "at">>), so that str.replace("-", "_") and str.startswith(...) are      *)
(* computed and not assumed.  Timestamps are ISO-8601 strings of one       *)
(* format in the program; they are only compared, so they are the naturals *)
(* 1, 2, ... here, and 0 stands for the falsy timestamps (None and the     *)
(* empty string).                                                          *)
(***************************************************************************)
EXTENDS Integers, Sequences, FiniteSets, TLC

VARIABLES
    pc,                     \* position of the sync loop
    boundary_reached,       \* PersonaPaginator._boundary_reached
    current_value,          \* paginator's current page token (None on the first page)
    pagination_boundary_id, \* PersonaStream._pagination_boundary_id
    state,                  \* the stream's state dict (bookmark of this resource)
    config,                 \* the tap's config dict
    params,                 \* query parameters of the last request
    resp,                   \* the response being processed
    flattened_records,      \* what parse_response yields for resp
    next_idx,               \* how many of them went through post_process
    emitted,                \* records emitted so far in this pass
    page_start,             \* Len(emitted) when the current page started
    nreq,                   \* HTTP requests issued in this pass
    hit_req,                \* request number of the page that held the boundary (0: none)
    last_next,              \* what get_next returned last
    observed,               \* incomplete records with a created_at emitted so far
    db,                     \* the API's collection, newest first (SpecApi)
    owed,                   \* ids emitted as incomplete in an earlier pass (SpecApi)
    name,                   \* self.name of the stream whose methods run
    persisted,              \* the bookmark in the last STATE message written
    state_before_pass,      \* the persisted bookmark when the pass started
    heap,                   \* class attributes and instance attributes of the objects (SpecTwo)
    tap_state,              \* the tap's bookmarks, one per stream (SpecTwo)
    streams                 \* where each stream's pass stands (SpecTwo)

vars == <<pc, boundary_reached, current_value, pagination_boundary_id, state,
          config, params, resp, flattened_records, next_idx, emitted,
          page_start, nreq, hit_req, last_next, observed, db, owed, name,
          persisted, state_before_pass, heap, tap_state, streams>>

----------------------------------------------------------------------------
(* Values *)

None == "None"
NoTime == 0

\* Total records the API serves in one pass.
MaxRecords == 3

\* Records between two STATE messages of a pass (10000 in the runtime, scaled
\* to the pages of these runs).
STATE_MSG_FREQUENCY == 2

Truthy(t) == t # NoTime

(* Field names *)
F_id == <<"id">>
F_type == <<"type">>
F_status == <<"status">>
F_created_at == <<"created", "_", "at">>
F_updated_at == <<"updated", "_", "at">>
F_relationships == <<"relationships">>
F_sdc_extracted_at == <<"_", "sdc", "_", "extracted", "_", "at">>
A_created_at == <<"created", "-", "at">>
A_updated_at == <<"updated", "-", "at">>
A_name_first == <<"name", "-", "first">>

(* State keys *)
K_earliest_incomplete_ == <<"earliest", "_", "incomplete", "_">>
K_id == K_earliest_incomplete_ \o F_id
K_status == K_earliest_incomplete_ \o F_status
K_created_at == K_earliest_incomplete_ \o F_created_at
K_updated_at == K_earliest_incomplete_ \o F_updated_at
K_replication_key == <<"replication", "_", "key">>
K_replication_key_value == K_replication_key \o <<"_", "value">>
K_progress_markers == <<"progress", "_", "markers">>

BoundaryKeys == {K_id, K_status, K_created_at, K_updated_at}

(* dict helpers *)
EmptyDict == [k \in {} |-> None]
Put(d, k, v) == [x \in DOMAIN d \cup {k} |-> IF x = k THEN v ELSE d[x]]
Update(d, e) == [x \in DOMAIN d \cup DOMAIN e |-> IF x \in DOMAIN e THEN e[x] ELSE d[x]]
Restrict(d, S) == [x \in DOMAIN d \cap S |-> d[x]]
GetStr(d, k) == IF k \in DOMAIN d THEN d[k] ELSE None
GetTime(d, k) == IF k \in DOMAIN d THEN d[k] ELSE NoTime

----------------------------------------------------------------------------
(* URLs.  urlparse(next_url).query is the list of key=value pairs of the   *)
(* URL; parse_qs maps every key to the list of its values, in order, and   *)
(* drops pairs whose value is blank (keep_blank_values is off).            *)

JsonNull == [null |-> TRUE]
Url(path, query) == [null |-> FALSE, path |-> path, query |-> query]

RECURSIVE ValuesOf(_, _)
ValuesOf(query, key) ==
    IF query = <<>> THEN <<>>
    ELSE LET rest == ValuesOf(Tail(query), key)
         IN IF Head(query)[1] = key /\ Head(query)[2] # ""
            THEN <<Head(query)[2]>> \o rest
            ELSE rest

ParseQs(query) ==
    LET keys == {query[i][1] : i \in {j \in DOMAIN query : query[j][2] # ""}}
    IN [k \in keys |-> ValuesOf(query, k)]

----------------------------------------------------------------------------
(* PersonaPaginator *)

\* A get_next that does not look at the stop signal.
GetNext_IgnoresSignal(flag, response) ==
    LET links == IF "links" \in DOMAIN response THEN response.links ELSE EmptyDict
        has_next == "next" \in DOMAIN links /\ ~links["next"].null
    IN IF has_next
       THEN LET query_params == ParseQs(links["next"].query)
            IN IF "page[after]" \in DOMAIN query_params
               THEN query_params["page[after]"][1]
               ELSE None
       ELSE None

\* A get_next that reads the cursor from another parameter of the next link.
GetNext_WrongParam(flag, response) ==
    IF flag THEN None
    ELSE LET links == IF "links" \in DOMAIN response THEN response.links ELSE EmptyDict
             has_next == "next" \in DOMAIN links /\ ~links["next"].null
         IN IF has_next
            THEN LET query_params == ParseQs(links["next"].query)
                 IN IF "page[size]" \in DOMAIN query_params
                    THEN query_params["page[size]"][1]
                    ELSE None
            ELSE None

\* A get_next that takes the whole query of the next link when page[after] is missing.
GetNext_InventsCursor(flag, response) ==
    IF flag THEN None
    ELSE LET links == IF "links" \in DOMAIN response THEN response.links ELSE EmptyDict
             has_next == "next" \in DOMAIN links /\ ~links["next"].null
         IN IF has_next
            THEN LET query_params == ParseQs(links["next"].query)
                 IN IF "page[after]" \in DOMAIN query_params
                    THEN query_params["page[after]"][1]
                    ELSE "cursor_0"
            ELSE None

\* get_next: the cursor of the next page, or None.
GetNext(flag, response) ==
    IF flag THEN None
    ELSE LET links == IF "links" \in DOMAIN response THEN response.links ELSE EmptyDict
             has_next == "next" \in DOMAIN links /\ ~links["next"].null
         IN IF has_next
            THEN LET query_params == ParseQs(links["next"].query)
                 IN IF "page[after]" \in DOMAIN query_params
                    THEN query_params["page[after]"][1]
                    ELSE None
            ELSE None

\* A set_boundary_reached that leaves the flag as it is.
SetBoundaryReached_Forgets(flag) == flag

\* set_boundary_reached
SetBoundaryReached(flag) == TRUE

\* A get_new_paginator that hands out the paginator of the previous pass.
NewPaginatorFlag_Reused == boundary_reached

\* get_new_paginator: a new PersonaPaginator, whose flag is the class default.
NewPaginatorFlag == FALSE

----------------------------------------------------------------------------
(* PersonaStream: request parameters *)

DefaultPageSize == 100

\* Incomplete statuses matched without regard to case.
IncompleteStatuses_AnyCase(stream) ==
    IF stream = "inquiries"
    THEN {"created", "pending", "needs_review", "Created", "Pending", "Needs_review"}
    ELSE IF stream = "cases" THEN {"Open", "open", "OPEN"}
    ELSE {}

IncompleteStatuses(stream) ==
    IF stream = "inquiries" THEN {"created", "pending", "needs_review"}
    ELSE IF stream = "cases" THEN {"Open"}
    ELSE {}

\* A get_starting_incomplete_id that looks at the config before the state.
GetStartingIncompleteId_ConfigFirst(st, cfg) ==
    LET state_id == GetStr(st, K_id)
        configured == IF name \in DOMAIN cfg
                      THEN IF cfg[name].is_dict
                           THEN GetStr(cfg[name].items, "start_id")
                           ELSE None
                      ELSE None
    IN IF configured # None THEN configured
       ELSE IF state_id # None /\ state_id # "" THEN state_id
       ELSE None

\* get_starting_incomplete_id
GetStartingIncompleteId(st, cfg) ==
    LET state_id == GetStr(st, K_id)
    IN IF state_id # None /\ state_id # "" THEN state_id
       ELSE IF name \in DOMAIN cfg
            THEN IF cfg[name].is_dict
                 THEN GetStr(cfg[name].items, "start_id")
                 ELSE None
            ELSE None

\* A page size that is the default whatever the config says.
PageSizeOf_AlwaysDefault(cfg) == DefaultPageSize

PageSizeOf(cfg) == IF "page_size" \in DOMAIN cfg THEN cfg["page_size"] ELSE DefaultPageSize

\* A get_url_params that injects the boundary on every page.
GetUrlParams_AlwaysInjects(st, cfg, next_page_token, old_boundary) ==
    LET base == [k \in {"page[size]"} |-> PageSizeOf(cfg)]
        with_cursor == IF next_page_token # None /\ next_page_token # ""
                       THEN Put(base, "page[after]", next_page_token) ELSE base
        boundary_id == GetStartingIncompleteId(st, cfg)
    IN IF boundary_id # None /\ boundary_id # ""
       THEN [params |-> Put(with_cursor, "page[before]", boundary_id), boundary |-> boundary_id]
       ELSE [params |-> with_cursor, boundary |-> old_boundary]

\* A get_url_params that takes the stored boundary as the target on every page.
GetUrlParams_Retargets(st, cfg, next_page_token, old_boundary) ==
    LET base == [k \in {"page[size]"} |-> PageSizeOf(cfg)]
        boundary_id == GetStartingIncompleteId(st, cfg)
        target == IF boundary_id # None /\ boundary_id # "" THEN boundary_id ELSE old_boundary
    IN IF next_page_token # None /\ next_page_token # ""
       THEN [params |-> Put(base, "page[after]", next_page_token), boundary |-> target]
       ELSE IF boundary_id # None /\ boundary_id # ""
            THEN [params |-> Put(base, "page[before]", boundary_id), boundary |-> target]
            ELSE [params |-> base, boundary |-> target]

\* A get_url_params that sends the boundary and does not keep it as the target.
GetUrlParams_ForgetsTarget(st, cfg, next_page_token, old_boundary) ==
    LET base == [k \in {"page[size]"} |-> PageSizeOf(cfg)]
    IN IF next_page_token # None /\ next_page_token # ""
       THEN [params |-> Put(base, "page[after]", next_page_token),
             boundary |-> old_boundary]
       ELSE LET boundary_id == GetStartingIncompleteId(st, cfg)
            IN IF boundary_id # None /\ boundary_id # ""
               THEN [params |-> Put(base, "page[before]", boundary_id),
                     boundary |-> old_boundary]
               ELSE [params |-> base, boundary |-> old_boundary]

\* get_url_params: the parameters, and the stream's _pagination_boundary_id after the call.
GetUrlParams(st, cfg, next_page_token, old_boundary) ==
    LET base == [k \in {"page[size]"} |-> PageSizeOf(cfg)]
    IN IF next_page_token # None /\ next_page_token # ""
       THEN [params |-> Put(base, "page[after]", next_page_token),
             boundary |-> old_boundary]
       ELSE LET boundary_id == GetStartingIncompleteId(st, cfg)
            IN IF boundary_id # None /\ boundary_id # ""
               THEN [params |-> Put(base, "page[before]", boundary_id),
                     boundary |-> boundary_id]
               ELSE [params |-> base, boundary |-> old_boundary]

----------------------------------------------------------------------------
(* PersonaStream: parse_response *)

\* A _normalize_field_name that returns the name as it came.
NormalizeFieldName_Unchanged(field_name) == field_name

\* _normalize_field_name: field_name.replace("-", "_")
NormalizeFieldName(field_name) ==
    [i \in 1..Len(field_name) |-> IF field_name[i] = "-" THEN "_" ELSE field_name[i]]

RECURSIVE AddAttributes(_, _)
AddAttributes(flat, attributes) ==
    IF attributes = <<>> THEN flat
    ELSE AddAttributes(Put(flat, NormalizeFieldName(Head(attributes)[1]), Head(attributes)[2]),
                       Tail(attributes))

\* The flattened record of one resource of data.
Flatten(record) ==
    LET base == [k \in {F_id, F_type} |->
                    IF k = F_id THEN GetStr(record, "id") ELSE GetStr(record, "type")]
        attributes == IF "attributes" \in DOMAIN record THEN record.attributes ELSE <<>>
        with_attrs == AddAttributes(base, attributes)
    IN IF "relationships" \in DOMAIN record
       THEN Put(with_attrs, F_relationships, record.relationships)
       ELSE with_attrs

IsBoundary(record, boundary_id) ==
    boundary_id # None /\ boundary_id # "" /\ GetStr(record, "id") = boundary_id

\* A loop that never breaks.
ScanLength_NoBreak(records, boundary_id) == Len(records)

\* How many resources of data the loop goes through: it breaks after the boundary.
ScanLength(records, boundary_id) ==
    LET hits == {i \in DOMAIN records : IsBoundary(records[i], boundary_id)}
    IN IF hits = {} THEN Len(records)
       ELSE CHOOSE i \in hits : \A j \in hits : i <= j

BoundaryInPage(records, boundary_id) ==
    \E i \in DOMAIN records : IsBoundary(records[i], boundary_id)

FlattenScanned(records, boundary_id) ==
    [i \in 1..ScanLength(records, boundary_id) |-> Flatten(records[i])]

\* The sort key: x.get(replication_key) or ""
\* A sort key that puts records without updated_at behind all others.
SortKey_MissingLast(x) ==
    IF Truthy(GetTime(x, F_updated_at)) THEN x[F_updated_at] ELSE 9

\* x.get(replication_key) or ""
SortKey(x) == GetTime(x, F_updated_at)

\* A sort that puts x before the elements of its own key.
InsertSorted_Unstable(s, x) ==
    LET n == Cardinality({i \in DOMAIN s : GetTime(s[i], F_updated_at) < GetTime(x, F_updated_at)})
    IN SubSeq(s, 1, n) \o <<x>> \o SubSeq(s, n + 1, Len(s))

\* list.sort is stable: x goes behind every element whose key is not larger.
InsertSorted(s, x) ==
    LET n == Cardinality({i \in DOMAIN s : SortKey(s[i]) <= SortKey(x)})
    IN SubSeq(s, 1, n) \o <<x>> \o SubSeq(s, n + 1, Len(s))

RECURSIVE SortByReplicationKey(_)
SortByReplicationKey(s) ==
    IF s = <<>> THEN <<>>
    ELSE InsertSorted(SortByReplicationKey(SubSeq(s, 1, Len(s) - 1)), s[Len(s)])

DataOf(response) == IF "data" \in DOMAIN response THEN response.data ELSE <<>>

\* parse_response: the records it yields, and the paginator's flag after it.
ParseResponse(response, boundary_id, flag) ==
    LET records == DataOf(response)
        hit == BoundaryInPage(records, boundary_id)
    IN [records |-> SortByReplicationKey(FlattenScanned(records, boundary_id)),
        flag |-> IF hit THEN SetBoundaryReached(flag) ELSE flag]

----------------------------------------------------------------------------
(* PersonaStream: post_process and _finalize_state *)

Now == "now"

\* An update that takes a record of any status.
ShouldUpdate_AnyStatus(row, st) ==
    /\ Truthy(GetTime(row, F_created_at))
    /\ \/ ~Truthy(GetTime(st, K_created_at))
       \/ GetTime(row, F_created_at) < GetTime(st, K_created_at)

\* An update that takes an incomplete record without a created_at.
ShouldUpdate_WithoutCreatedAt(row, st) ==
    /\ GetStr(row, F_status) \in IncompleteStatuses(name)
    /\ \/ ~Truthy(GetTime(st, K_created_at))
       \/ GetTime(row, F_created_at) < GetTime(st, K_created_at)

\* An update that also replaces a boundary of the same created_at.
ShouldUpdate_OrEqual(row, st) ==
    /\ GetStr(row, F_status) \in IncompleteStatuses(name)
    /\ Truthy(GetTime(row, F_created_at))
    /\ \/ ~Truthy(GetTime(st, K_created_at))
       \/ GetTime(row, F_created_at) <= GetTime(st, K_created_at)

\* An update that only fills an empty boundary.
ShouldUpdate_OnlyFirst(row, st) ==
    /\ GetStr(row, F_status) \in IncompleteStatuses(name)
    /\ Truthy(GetTime(row, F_created_at))
    /\ ~Truthy(GetTime(st, K_created_at))

ShouldUpdate(row, st) ==
    /\ GetStr(row, F_status) \in IncompleteStatuses(name)
    /\ Truthy(GetTime(row, F_created_at))
    /\ \/ ~Truthy(GetTime(st, K_created_at))
       \/ GetTime(row, F_created_at) < GetTime(st, K_created_at)

BoundaryOf(row) ==
    [k \in BoundaryKeys |->
        IF k = K_id THEN row[F_id]
        ELSE IF k = K_status THEN GetStr(row, F_status)
        ELSE IF k = K_created_at THEN GetTime(row, F_created_at)
        ELSE GetTime(row, F_updated_at)]

\* A post_process that also takes a record of the stored created_at and writes
\* the timestamp it compared with into earliest_incomplete_updated_at.
PostProcess_StoresComparedTimestamp(row, st) ==
    [row |-> Put(row, F_sdc_extracted_at, Now),
     state |-> IF ShouldUpdate_OrEqual(row, st)
               THEN Update(st, [BoundaryOf(row) EXCEPT ![K_updated_at] = GetTime(st, K_created_at)])
               ELSE st]

\* A post_process that returns only the keys of the record.
PostProcess_KeepsKeysOnly(row, st) ==
    [row |-> Put(Restrict(row, {F_id, F_type}), F_sdc_extracted_at, Now),
     state |-> IF ShouldUpdate(row, st) THEN Update(st, BoundaryOf(row)) ELSE st]

\* post_process: the row it returns and the state it leaves.
PostProcess(row, st) ==
    [row |-> Put(row, F_sdc_extracted_at, Now),
     state |-> IF ShouldUpdate(row, st) THEN Update(st, BoundaryOf(row)) ELSE st]

StartsWith(k, prefix) ==
    Len(k) >= Len(prefix) /\ SubSeq(k, 1, Len(prefix)) = prefix

CustomFields(st) == Restrict(st, {k \in DOMAIN st : StartsWith(k, K_earliest_incomplete_)})

\* The parent's finalization: the progress markers are promoted to the replication
\* key fields; by the contract the tap relies on, only those fields are kept.
ParentFinalize(st) ==
    LET promoted ==
            IF K_progress_markers \in DOMAIN st
            THEN Update(Restrict(st, DOMAIN st \ {K_progress_markers}),
                        [k \in {K_replication_key, K_replication_key_value} |->
                            IF k = K_replication_key THEN F_updated_at
                            ELSE st[K_progress_markers]])
            ELSE st
    IN {promoted, Restrict(promoted, {K_replication_key, K_replication_key_value})}

\* A _finalize_state that does not restore the custom fields.
FinalizeState_NoRestore(st) == ParentFinalize(st)

\* A _finalize_state that restores the whole state it was given.
FinalizeState_RestoresAll(st) == {Update(fin, st) : fin \in ParentFinalize(st)}

\* A _finalize_state that restores earliest_incomplete_id only.
FinalizeState_RestoresIdOnly(st) ==
    {Update(fin, Restrict(st, DOMAIN st \cap {K_id})) : fin \in ParentFinalize(st)}

\* _finalize_state: the states it can leave.
FinalizeState(st) ==
    LET custom_fields == IF st # EmptyDict THEN CustomFields(st) ELSE EmptyDict
    IN {IF st # EmptyDict /\ custom_fields # EmptyDict THEN Update(fin, custom_fields) ELSE fin :
            fin \in ParentFinalize(st)}

\* The runtime's bookmark of the pass: the largest replication key value emitted.
IncrementState(st, row) ==
    LET new == GetTime(row, F_updated_at)
        old == GetTime(st, K_progress_markers)
    IN IF Truthy(new) /\ new >= old THEN Put(st, K_progress_markers, new) ELSE st

----------------------------------------------------------------------------
(* The API's answers *)

Endpoint == "https://withpersona.com/api/v1/inquiries"

Attr(key, t) == IF Truthy(t) THEN <<<<key, t>>>> ELSE <<>>

\* A resource as the API returns it (hyphenated attribute names); a timestamp of
\* NoTime is an attribute the resource does not carry.
Resource(id, status, created, updated) ==
    [id |-> id, type |-> "inquiry",
     attributes |-> <<<<F_status, status>>>> \o Attr(A_created_at, created)
                        \o Attr(A_updated_at, updated)]

Pool ==
    { Resource("inq_3", "created", 1, 1),
      Resource("inq_3", "completed", 1, 3),
      Resource("inq_5", "pending", 2, 2),
      Resource("inq_7", "needs_review", NoTime, 3),
      Resource("inq_9", "completed", 3, NoTime) }

Cursors == {"cursor_123", "cursor_456"}
NextUrl(cursor) == Url(Endpoint, <<<<"page[after]", cursor>>>>)
\* Next links that carry no cursor: no page[after] parameter, or a blank one.
UrlsWithoutCursor ==
    {Url(Endpoint, <<<<"page[size]", "100">>>>), Url(Endpoint, <<<<"page[after]", "">>>>)}

Links == {JsonNull} \cup {NextUrl(c) : c \in Cursors} \cup UrlsWithoutCursor

SeqsUpTo(S, n) == UNION {[1..m -> S] : m \in 0..n}

\* The links object of a response: its next link, or no next key at all.
LinkObjects == {[next |-> l] : l \in Links} \cup {EmptyDict}

Responses(budget) ==
    {[data |-> d, links |-> l] : d \in SeqsUpTo(Pool, budget), l \in LinkObjects}

NoResponse == [data |-> <<>>]

Configs ==
    { [api_key |-> "key"],
      [api_key |-> "key", inquiries |-> [is_dict |-> TRUE, items |-> [start_id |-> "inq_5"]]] }

----------------------------------------------------------------------------
(* One sync pass, as the runtime's request loop runs it *)

Init ==
    /\ pc = "idle"
    /\ boundary_reached = FALSE
    /\ current_value = None
    /\ pagination_boundary_id = None
    /\ state = EmptyDict
    /\ config \in Configs
    /\ params = EmptyDict
    /\ resp = NoResponse
    /\ flattened_records = <<>>
    /\ next_idx = 0
    /\ emitted = <<>>
    /\ page_start = 0
    /\ nreq = 0
    /\ hit_req = 0
    /\ last_next = None
    /\ observed = {}
    /\ db = <<>>
    /\ owed = {}
    /\ name = "inquiries"
    /\ persisted = EmptyDict
    /\ state_before_pass = EmptyDict
    /\ heap = EmptyDict
    /\ tap_state = EmptyDict
    /\ streams = EmptyDict

\* The pass starts: request_records asks the stream for a new paginator.
BeginPass ==
    /\ pc = "idle"
    /\ pc' = "request"
    /\ boundary_reached' = NewPaginatorFlag
    /\ current_value' = None
    /\ emitted' = <<>>
    /\ page_start' = 0
    /\ nreq' = 0
    /\ hit_req' = 0
    /\ last_next' = None
    /\ state_before_pass' = persisted
    /\ UNCHANGED <<heap, tap_state, streams, name, persisted, pagination_boundary_id, state, config, params, resp,
                   flattened_records, next_idx, observed, db>>

StartPass == BeginPass /\ UNCHANGED owed

\* prepare_request builds the parameters and the request is sent.
SendRequest(response) ==
    LET r == GetUrlParams(state, config, current_value, pagination_boundary_id)
    IN /\ params' = r.params
       /\ pagination_boundary_id' = r.boundary
       /\ nreq' = nreq + 1
       /\ resp' = response
       /\ pc' = "parse"
       /\ UNCHANGED <<heap, tap_state, streams, name, persisted, state_before_pass, boundary_reached, current_value, state, config,
                      flattened_records, next_idx, emitted, page_start, hit_req,
                      last_next, observed, db, owed>>

\* The API answers with any page.
Request ==
    /\ pc = "request"
    /\ \E response \in Responses(MaxRecords - Len(emitted)) : SendRequest(response)

\* parse_response runs; a page that yields nothing ends the request loop.
Parse ==
    /\ pc = "parse"
    /\ LET p == ParseResponse(resp, pagination_boundary_id, boundary_reached)
       IN /\ flattened_records' = p.records
          /\ boundary_reached' = p.flag
          /\ hit_req' = IF BoundaryInPage(DataOf(resp), pagination_boundary_id)
                        THEN nreq ELSE hit_req
          /\ pc' = IF p.records = <<>> THEN "finalize" ELSE "emit"
    /\ next_idx' = 0
    /\ page_start' = Len(emitted)
    /\ UNCHANGED <<heap, tap_state, streams, name, persisted, state_before_pass, current_value, pagination_boundary_id, state, config, params,
                   resp, emitted, nreq, last_next, observed, db, owed>>

IsIncompleteObservation(row) ==
    GetStr(row, F_status) \in IncompleteStatuses(name) /\ Truthy(GetTime(row, F_created_at))

\* The next yielded record goes through post_process and is emitted; the runtime
\* moves its bookmark and writes a STATE message every STATE_MSG_FREQUENCY records.
Emit ==
    /\ pc = "emit"
    /\ next_idx < Len(flattened_records)
    /\ LET row == flattened_records[next_idx + 1]
           q == PostProcess(row, state)
       IN /\ emitted' = Append(emitted, q.row)
          /\ state' = IncrementState(q.state, q.row)
          /\ persisted' = IF (Len(emitted) + 1) % STATE_MSG_FREQUENCY = 0
                          THEN IncrementState(q.state, q.row) ELSE persisted
          /\ observed' = IF IsIncompleteObservation(row)
                         THEN observed \cup {BoundaryOf(row)} ELSE observed
    /\ next_idx' = next_idx + 1
    /\ pc' = IF next_idx + 1 = Len(flattened_records) THEN "advance" ELSE "emit"
    /\ UNCHANGED <<heap, tap_state, streams, name, state_before_pass, boundary_reached, current_value, pagination_boundary_id, config,
                   params, resp, flattened_records, page_start, nreq, hit_req,
                   last_next, owed, db>>

\* paginator.advance(response): get_next decides whether there is another page;
\* the runtime refuses a cursor equal to the current one.
Advance ==
    /\ pc = "advance"
    /\ LET new_value == GetNext(boundary_reached, resp)
       IN /\ last_next' = new_value
          /\ IF new_value # None /\ new_value = current_value
             THEN pc' = "failed" /\ UNCHANGED current_value
             ELSE IF new_value = None \/ new_value = ""
             THEN pc' = "finalize" /\ UNCHANGED current_value
             ELSE pc' = "request" /\ current_value' = new_value
    /\ UNCHANGED <<heap, tap_state, streams, name, persisted, state_before_pass, boundary_reached, pagination_boundary_id, state, config, params,
                   resp, flattened_records, next_idx, emitted, page_start, nreq,
                   hit_req, observed, db, owed>>

\* The pass ends: the state is finalized and the final STATE message is written.
Finalize ==
    /\ pc = "finalize"
    /\ state' \in FinalizeState(state)
    /\ persisted' = state'
    /\ pc' = "idle"
    /\ params' = EmptyDict
    /\ resp' = NoResponse
    /\ flattened_records' = <<>>
    /\ next_idx' = 0
    /\ UNCHANGED <<heap, tap_state, streams, name, state_before_pass, boundary_reached, current_value, pagination_boundary_id, config,
                   emitted, page_start, nreq, hit_req, last_next, observed, db, owed>>

Next == StartPass \/ Request \/ Parse \/ Emit \/ Advance \/ Finalize

Spec == Init /\ [][Next]_vars

----------------------------------------------------------------------------
(* The paginator and parse_response called directly on one response, the   *)
(* way the unit tests call them.                                           *)

A_reference_id == <<"reference", "-", "id">>
F_name_first == <<"name", "_", "first">>

\* Resources with hyphenated names (the API), with underscored names and
\* relationships (the test fixtures), without timestamps, and with a null
\* updated-at.
UnitPool ==
    { Resource("inq_9", "completed", 4, 4),
      Resource("inq_7", "pending", 3, 1),
      Resource("inq_5", "created", 2, 2),
      Resource("inq_3", "completed", 1, 2),
      [id |-> "inq_123456", type |-> "inquiry",
       attributes |-> << <<F_status, "completed">>, <<A_reference_id, "ref_001">>,
                         <<F_created_at, 2>>, <<F_updated_at, 3>>,
                         <<F_name_first, "John">> >>,
       relationships |-> [verifications |-> [data |-> <<[type |-> "verification", id |-> "ver_123"]>>]]],
      [id |-> "inq_1", type |-> "inquiry",
       attributes |-> << <<A_created_at, 1>>, <<A_name_first, "Jane">> >>],
      [id |-> "inq_2", type |-> "inquiry",
       attributes |-> << <<F_status, "pending">>, <<A_updated_at, NoTime>> >>] }

\* The page of the boundary scenario: inq_9, inq_7, inq_5, inq_3 in API order.
ScenarioPage ==
    << Resource("inq_9", "completed", 4, 4), Resource("inq_7", "pending", 3, 1),
       Resource("inq_5", "created", 2, 2), Resource("inq_3", "completed", 1, 2) >>

UnitLinkObjects ==
    LinkObjects \cup
    { [next |-> Url(Endpoint, << <<"page[size]", "100">>, <<"page[after]", "cursor_123">> >>)],
      [next |-> Url(Endpoint, << <<"page[after]", "cursor_456">>, <<"page[after]", "cursor_123">> >>)] }

UnitPages == SeqsUpTo(UnitPool, MaxRecords) \cup {ScenarioPage}

UnitResponses ==
    {[data |-> d, links |-> l] : d \in UnitPages, l \in UnitLinkObjects}
        \cup {[data |-> d] : d \in UnitPages}

UnitBoundaries == {None, "inq_5", "inq_7"}

InitUnit ==
    /\ pc = "unit"
    /\ boundary_reached = FALSE
    /\ current_value = None
    /\ pagination_boundary_id \in UnitBoundaries
    /\ state = EmptyDict
    /\ config = [api_key |-> "key"]
    /\ params = EmptyDict
    /\ resp \in UnitResponses
    /\ flattened_records = <<>>
    /\ next_idx = 0
    /\ emitted = <<>>
    /\ page_start = 0
    /\ nreq = 0
    /\ hit_req = 0
    /\ last_next = None
    /\ observed = {}
    /\ db = <<>>
    /\ owed = {}
    /\ name = "inquiries"
    /\ persisted = EmptyDict
    /\ state_before_pass = EmptyDict
    /\ heap = EmptyDict
    /\ tap_state = EmptyDict
    /\ streams = EmptyDict

\* list(stream.parse_response(response))
UnitParse ==
    /\ pc = "unit"
    /\ LET p == ParseResponse(resp, pagination_boundary_id, boundary_reached)
       IN /\ flattened_records' = p.records
          /\ boundary_reached' = p.flag
    /\ pc' = "unit_parsed"
    /\ UNCHANGED <<heap, tap_state, streams, name, persisted, state_before_pass, current_value, pagination_boundary_id, state, config, params,
                   resp, next_idx, emitted, page_start, nreq, hit_req, last_next,
                   observed, db, owed>>

\* paginator.set_boundary_reached()
UnitSetBoundaryReached ==
    /\ pc \in {"unit", "unit_parsed"}
    /\ boundary_reached' = SetBoundaryReached(boundary_reached)
    /\ UNCHANGED <<heap, tap_state, streams, name, persisted, state_before_pass, pc, current_value, pagination_boundary_id, state, config, params,
                   resp, flattened_records, next_idx, emitted, page_start, nreq,
                   hit_req, last_next, observed, db, owed>>

\* paginator.get_next(response), on the response at hand or on one with other links.
UnitGetNext ==
    /\ pc \in {"unit", "unit_parsed"}
    /\ \E response \in {resp} \cup {[data |-> DataOf(resp), links |-> l] : l \in UnitLinkObjects} :
          /\ resp' = response
          /\ last_next' = GetNext(boundary_reached, response)
    /\ nreq' = 1
    /\ UNCHANGED <<heap, tap_state, streams, name, persisted, state_before_pass, pc, boundary_reached, current_value, pagination_boundary_id, state,
                   config, params, flattened_records, next_idx, emitted, page_start,
                   hit_req, observed, db, owed>>

NextUnit == UnitParse \/ UnitSetBoundaryReached \/ UnitGetNext

SpecUnit == InitUnit /\ [][NextUnit]_vars

----------------------------------------------------------------------------
(* Passes against an API that behaves as the tap expects: the collection   *)
(* is listed newest-created first, page[before]=B cuts the listing after   *)
(* B, page[after] continues behind the resource the cursor names, and      *)
(* page[size] is honoured.                                                 *)

\* The page size configured in these runs.
ApiPageSize == 2

IndexOf(d, id) == CHOOSE i \in DOMAIN d : d[i].id = id
HasId(d, id) == \E i \in DOMAIN d : d[i].id = id

\* The API's answer to a request with parameters prms over collection d.
ApiList(d, prms) ==
    LET start == IF "page[after]" \in DOMAIN prms /\ HasId(d, prms["page[after]"])
                 THEN IndexOf(d, prms["page[after]"]) + 1 ELSE 1
        stop == IF "page[before]" \in DOMAIN prms /\ HasId(d, prms["page[before]"])
                THEN IndexOf(d, prms["page[before]"]) ELSE Len(d)
        last == IF start + prms["page[size]"] - 1 < stop
                THEN start + prms["page[size]"] - 1 ELSE stop
    IN [data |-> SubSeq(d, start, last),
        links |-> [next |-> IF last < stop THEN NextUrl(d[last].id) ELSE JsonNull]]

\* inq_5 and inq_7 were created in the same second.
CreatedOf(id) ==
    IF id = "inq_3" THEN 1 ELSE IF id = "inq_9" THEN 3 ELSE 2

Created(id) == Resource(id, "created", CreatedOf(id), CreatedOf(id))
Completed(id) == Resource(id, "completed", CreatedOf(id), CreatedOf(id) + 1)

\* Collections in the API's order (resources of one second in either order).
Collections ==
    LET orders == { <<"inq_7", "inq_5", "inq_3">>, <<"inq_5", "inq_7", "inq_3">>,
                    <<"inq_9", "inq_7", "inq_5", "inq_3">>,
                    <<"inq_9", "inq_5", "inq_7", "inq_3">> }
    IN UNION { { d \in [DOMAIN o -> {Created(id) : id \in {"inq_3", "inq_5", "inq_7", "inq_9"}}
                                      \cup {Completed(id) : id \in {"inq_3", "inq_5", "inq_7", "inq_9"}}] :
                   \A i \in DOMAIN o : d[i].id = o[i] } : o \in orders }

InitApi ==
    /\ pc = "idle"
    /\ boundary_reached = FALSE
    /\ current_value = None
    /\ pagination_boundary_id = None
    /\ state = EmptyDict
    /\ config \in { [api_key |-> "key", page_size |-> ApiPageSize],
                    [api_key |-> "key", page_size |-> ApiPageSize,
                     inquiries |-> [is_dict |-> TRUE, items |-> [start_id |-> "inq_3"]]] }
    /\ params = EmptyDict
    /\ resp = NoResponse
    /\ flattened_records = <<>>
    /\ next_idx = 0
    /\ emitted = <<>>
    /\ page_start = 0
    /\ nreq = 0
    /\ hit_req = 0
    /\ last_next = None
    /\ observed = {}
    /\ db \in Collections
    /\ owed = {}
    /\ name = "inquiries"
    /\ persisted = EmptyDict
    /\ state_before_pass = EmptyDict
    /\ heap = EmptyDict
    /\ tap_state = EmptyDict
    /\ streams = EmptyDict

IncompleteIds(rows) ==
    {rows[i][F_id] : i \in {j \in DOMAIN rows : IsIncompleteObservation(rows[j])}}

\* A pass starts; what the last pass emitted as incomplete is owed from now on.
StartPassApi == BeginPass /\ owed' = owed \cup IncompleteIds(emitted)

\* The API answers the request.
RequestApi ==
    /\ pc = "request"
    /\ SendRequest(ApiList(db, GetUrlParams(state, config, current_value,
                                            pagination_boundary_id).params))

\* The API answers the request with 401 or 403: the runtime's validate_response
\* raises a fatal error, which nothing in the tap catches, and the run ends.
RequestDenied ==
    /\ pc = "request"
    /\ \E status_code \in {401, 403} :
          resp' = [status_code |-> status_code, data |-> <<>>, links |-> EmptyDict]
    /\ LET r == GetUrlParams(state, config, current_value, pagination_boundary_id)
       IN /\ params' = r.params
          /\ pagination_boundary_id' = r.boundary
    /\ nreq' = nreq + 1
    /\ pc' = "aborted"
    /\ UNCHANGED <<heap, tap_state, streams, boundary_reached, current_value, state, config, flattened_records,
                   next_idx, emitted, page_start, hit_req, last_next, observed, db,
                   owed, name, persisted, state_before_pass>>

\* Between passes an incomplete inquiry completes.
ApiComplete ==
    /\ pc = "idle"
    /\ \E i \in DOMAIN db :
          /\ db[i] = Created(db[i].id)
          /\ db' = [db EXCEPT ![i] = Completed(db[i].id)]
    /\ UNCHANGED <<heap, tap_state, streams, name, persisted, state_before_pass, pc, boundary_reached, current_value, pagination_boundary_id, state,
                   config, params, resp, flattened_records, next_idx, emitted,
                   page_start, nreq, hit_req, last_next, observed, owed>>

\* Between passes a new inquiry is created.
ApiCreate ==
    /\ pc = "idle"
    /\ ~HasId(db, "inq_9")
    /\ db' = <<Created("inq_9")>> \o db
    /\ UNCHANGED <<heap, tap_state, streams, name, persisted, state_before_pass, pc, boundary_reached, current_value, pagination_boundary_id, state,
                   config, params, resp, flattened_records, next_idx, emitted,
                   page_start, nreq, hit_req, last_next, observed, owed>>

NextApi ==
    StartPassApi \/ RequestApi \/ RequestDenied \/ Parse \/ Emit \/ Advance \/ Finalize
        \/ ApiComplete \/ ApiCreate

SpecApi == InitApi /\ [][NextApi]_vars

----------------------------------------------------------------------------
(* get_url_params, post_process and _finalize_state called directly on a   *)
(* stream of either resource, with the bookmark and the config it may have *)
(* been started with.                                                      *)

\* Calls made on one stream.
MaxCalls == 3

CaseResource(id, status, created, updated) ==
    [Resource(id, status, created, updated) EXCEPT !.type = "case"]

CallResources(stream) ==
    IF stream = "inquiries"
    THEN { Resource("inq_3", "created", 1, 1),
           Resource("inq_4", "Pending", 1, 2),
           Resource("inq_5", "pending", 2, 3),
           Resource("inq_5", "completed", 2, 4),
           Resource("inq_5", "needs_review", 2, 4),
           Resource("inq_6", "created", 2, 2),
           Resource("inq_7", "needs_review", NoTime, 3),
           Resource("inq_9", "created", 3, NoTime),
           CHOOSE r \in UnitPool : "relationships" \in DOMAIN r }
    ELSE { CaseResource("case_3", "Open", 1, 1),
           CaseResource("case_5", "Open", 2, 3),
           CaseResource("case_5", "Resolved", 2, 4),
           CaseResource("case_5", "Open", 2, 5),
           CaseResource("case_7", "created", 1, 2),
           CaseResource("case_8", "open", 1, 2) }

\* The rows parse_response hands to post_process.
CallRows(stream) == {Flatten(r) : r \in CallResources(stream)}

\* Bookmarks a stream can start with: nothing, the replication key fields of a
\* finished pass, the progress markers of an interrupted one, and each of them
\* with a stored boundary.
CallStates(stream) ==
    LET standard == { EmptyDict,
                      Put(Put(EmptyDict, K_replication_key, F_updated_at),
                          K_replication_key_value, 2),
                      Put(EmptyDict, K_progress_markers, 3) }
        stored == BoundaryOf(Flatten(IF stream = "inquiries"
                                     THEN Resource("inq_5", "pending", 2, 3)
                                     ELSE CaseResource("case_5", "Open", 2, 3)))
    IN standard \cup {Update(st, stored) : st \in standard}

StreamConfig(items) == [is_dict |-> TRUE, items |-> items]

\* Configs: no start ID, <resource>.start_id of either resource, a resource key
\* that holds no dict or a dict without start_id, and the top-level
\* start_inquiry_id and start_case_id of the config schema.
CallConfigs ==
    { [api_key |-> "key"],
      [api_key |-> "key", inquiries |-> StreamConfig([start_id |-> "inq_1"])],
      [api_key |-> "key", cases |-> StreamConfig([start_id |-> "case_1"])],
      [api_key |-> "key", inquiries |-> [is_dict |-> FALSE], cases |-> [is_dict |-> FALSE]],
      [api_key |-> "key", inquiries |-> StreamConfig(EmptyDict), cases |-> StreamConfig(EmptyDict)],
      [api_key |-> "key", start_inquiry_id |-> "inq_1", start_case_id |-> "case_1"],
      [api_key |-> "key", page_size |-> 50, start_inquiry_id |-> "inq_1",
       cases |-> StreamConfig([start_id |-> "case_1"])] }

InitCall ==
    /\ pc = "call"
    /\ boundary_reached = FALSE
    /\ current_value = None
    /\ pagination_boundary_id = None
    /\ name \in {"inquiries", "cases"}
    /\ state \in CallStates(name)
    /\ config \in CallConfigs
    /\ params = EmptyDict
    /\ resp = NoResponse
    /\ flattened_records = <<>>
    /\ next_idx = 0
    /\ emitted = <<>>
    /\ page_start = 0
    /\ nreq = 0
    /\ hit_req = 0
    /\ last_next = None
    /\ observed = {}
    /\ db = <<>>
    /\ owed = {}
    /\ persisted = EmptyDict
    /\ state_before_pass = EmptyDict
    /\ heap = EmptyDict
    /\ tap_state = EmptyDict
    /\ streams = EmptyDict

\* stream.get_url_params(context, next_page_token)
CallGetUrlParams ==
    /\ nreq < MaxCalls
    /\ \E next_page_token \in {None} \cup Cursors :
          LET r == GetUrlParams(state, config, next_page_token, pagination_boundary_id)
          IN /\ params' = r.params
             /\ pagination_boundary_id' = r.boundary
             /\ current_value' = next_page_token
    /\ pc' = "get_url_params"
    /\ nreq' = nreq + 1
    /\ UNCHANGED <<heap, tap_state, streams, boundary_reached, state, config, resp, flattened_records, next_idx,
                   emitted, page_start, hit_req, last_next, observed, db, owed, name,
                   persisted, state_before_pass>>

\* stream.post_process(row, context): flattened_records holds the row given,
\* emitted the row returned, and next_idx how many calls in a row were given it.
CallPostProcess ==
    /\ nreq < MaxCalls
    /\ \E row \in CallRows(name) :
          LET q == PostProcess(row, state)
          IN /\ flattened_records' = <<row>>
             /\ next_idx' = IF pc = "post_process" /\ flattened_records = <<row>>
                            THEN next_idx + 1 ELSE 1
             /\ emitted' = <<q.row>>
             /\ state' = q.state
             /\ observed' = IF IsIncompleteObservation(row)
                            THEN observed \cup {BoundaryOf(row)} ELSE observed
    /\ pc' = "post_process"
    /\ nreq' = nreq + 1
    /\ UNCHANGED <<heap, tap_state, streams, boundary_reached, current_value, pagination_boundary_id, config,
                   params, resp, page_start, hit_req, last_next, db, owed, name,
                   persisted, state_before_pass>>

\* stream._finalize_state(state)
CallFinalizeState ==
    /\ nreq < MaxCalls
    /\ state' \in FinalizeState(state)
    /\ pc' = "finalize_state"
    /\ nreq' = nreq + 1
    /\ UNCHANGED <<heap, tap_state, streams, boundary_reached, current_value, pagination_boundary_id, config,
                   params, resp, flattened_records, next_idx, emitted, page_start,
                   hit_req, last_next, observed, db, owed, name, persisted,
                   state_before_pass>>

NextCall == CallGetUrlParams \/ CallPostProcess \/ CallFinalizeState

SpecCall == InitCall /\ [][NextCall]_vars

----------------------------------------------------------------------------
(* The tap's two streams, InquiriesStream and CasesStream, with their      *)
(* passes interleaved.  The objects are explicit: self.x reads the         *)
(* instance's attribute when the instance has one and the class's          *)
(* otherwise, and self.x = v writes the instance's.                        *)

\* Total records the API serves one stream in its pass.
MaxStreamRecords == 2

StreamNames == {"inquiries", "cases"}

StreamObject(stream) == <<"stream", stream>>
PaginatorObject(stream) == <<"paginator", stream>>
Objects == {StreamObject(n) : n \in StreamNames} \cup {PaginatorObject(n) : n \in StreamNames}
ClassOf(obj) == IF obj[1] = "stream" THEN "PersonaStream" ELSE "PersonaPaginator"

\* The class attributes: PersonaPaginator._boundary_reached = False and
\* PersonaStream._pagination_boundary_id = None.
ClassAttrs ==
    [PersonaPaginator |-> [k \in {"_boundary_reached"} |-> NewPaginatorFlag],
     PersonaStream |-> [k \in {"_pagination_boundary_id"} |-> None]]

GetAttr(h, obj, key) ==
    IF key \in DOMAIN h.instance[obj] THEN h.instance[obj][key]
    ELSE h.class[ClassOf(obj)][key]

\* An assignment that writes the attribute of the class.
SetAttr_OnClass(h, obj, key, value) ==
    [h EXCEPT !.class[ClassOf(obj)] = Put(@, key, value)]

\* self.key = value
SetAttr(h, obj, key, value) ==
    [h EXCEPT !.instance[obj] = Put(@, key, value)]

\* A new object in the place of obj: it has no attribute of its own.
NewObject(h, obj) == [h EXCEPT !.instance[obj] = EmptyDict]

TwoResources(stream) ==
    IF stream = "inquiries"
    THEN {Resource("inq_3", "created", 1, 1), Resource("inq_5", "completed", 2, 3)}
    ELSE {CaseResource("case_3", "Open", 1, 1), CaseResource("case_5", "Resolved", 2, 3)}

TwoLinkObjects == {[next |-> JsonNull], [next |-> NextUrl("cursor_123")]}

TwoResponses(stream, budget) ==
    {[data |-> d, links |-> l] : d \in SeqsUpTo(TwoResources(stream), budget),
                                 l \in TwoLinkObjects}

\* The bookmark a stream starts with: none, or a boundary stored by an earlier run.
TwoBookmarks(stream) ==
    {EmptyDict, BoundaryOf(Flatten(CHOOSE r \in TwoResources(stream) : r.attributes[1][2] \in {"created", "Open"}))}

NewStream(bookmark) ==
    [pc |-> "idle", current_value |-> None, start |-> bookmark, pages |-> <<>>,
     emitted |-> <<>>]

InitTwo ==
    /\ pc = "two"
    /\ boundary_reached = FALSE
    /\ current_value = None
    /\ pagination_boundary_id = None
    /\ state = EmptyDict
    /\ config = [api_key |-> "key", cases |-> StreamConfig([start_id |-> "case_5"])]
    /\ params = EmptyDict
    /\ resp = NoResponse
    /\ flattened_records = <<>>
    /\ next_idx = 0
    /\ emitted = <<>>
    /\ page_start = 0
    /\ nreq = 0
    /\ hit_req = 0
    /\ last_next = None
    /\ observed = {}
    /\ db = <<>>
    /\ owed = {}
    /\ name \in StreamNames
    /\ persisted = EmptyDict
    /\ state_before_pass = EmptyDict
    /\ heap = [class |-> ClassAttrs, instance |-> [obj \in Objects |-> EmptyDict]]
    /\ \E inquiries \in TwoBookmarks("inquiries"), cases \in TwoBookmarks("cases") :
          /\ tap_state = [inquiries |-> inquiries, cases |-> cases]
          /\ streams = [inquiries |-> NewStream(inquiries), cases |-> NewStream(cases)]

passVars == <<pc, boundary_reached, current_value, pagination_boundary_id, state, config,
              params, resp, flattened_records, next_idx, emitted, page_start, nreq,
              hit_req, last_next, observed, db, owed, persisted, state_before_pass>>

\* post_process and the runtime's bookmark, over the records a page yields.
RECURSIVE EmitAll(_, _)
EmitAll(rows, st) ==
    IF rows = <<>> THEN [rows |-> <<>>, state |-> st]
    ELSE LET q == PostProcess(Head(rows), st)
             rest == EmitAll(Tail(rows), IncrementState(q.state, q.row))
         IN [rows |-> <<q.row>> \o rest.rows, state |-> rest.state]

\* The runtime turns to the other stream.
TwoSwitch ==
    /\ name' \in StreamNames \ {name}
    /\ UNCHANGED <<passVars, heap, tap_state, streams>>

\* The pass of stream name starts: get_new_paginator.
TwoBegin ==
    /\ streams[name].pc = "idle"
    /\ heap' = NewObject(heap, PaginatorObject(name))
    /\ streams' = [streams EXCEPT ![name].pc = "request"]
    /\ UNCHANGED <<passVars, name, tap_state>>

\* A page of stream name: get_url_params, the API's answer, parse_response, and
\* post_process on every record it yields.
TwoFetch ==
    /\ streams[name].pc = "request"
    /\ \E response \in TwoResponses(name, MaxStreamRecords - Len(streams[name].emitted)) :
          LET self == StreamObject(name)
              paginator == PaginatorObject(name)
              r == GetUrlParams(tap_state[name], config, streams[name].current_value,
                                GetAttr(heap, self, "_pagination_boundary_id"))
              h1 == IF "page[before]" \in DOMAIN r.params
                    THEN SetAttr(heap, self, "_pagination_boundary_id", r.boundary)
                    ELSE heap
              boundary_id == GetAttr(h1, self, "_pagination_boundary_id")
              p == ParseResponse(response, boundary_id, GetAttr(h1, paginator, "_boundary_reached"))
              h2 == IF BoundaryInPage(DataOf(response), boundary_id)
                    THEN SetAttr(h1, paginator, "_boundary_reached", p.flag)
                    ELSE h1
              e == EmitAll(p.records, tap_state[name])
          IN /\ heap' = h2
             /\ tap_state' = [tap_state EXCEPT ![name] = e.state]
             /\ streams' = [streams EXCEPT
                               ![name].pages = Append(@, response),
                               ![name].emitted = @ \o e.rows,
                               ![name].pc = IF p.records = <<>> THEN "finalize" ELSE "advance"]
    /\ UNCHANGED <<passVars, name>>

\* paginator.advance(response) of stream name.
TwoAdvance ==
    /\ streams[name].pc = "advance"
    /\ LET response == streams[name].pages[Len(streams[name].pages)]
           new_value == GetNext(GetAttr(heap, PaginatorObject(name), "_boundary_reached"),
                                response)
       IN streams' = [streams EXCEPT
                         ![name].pc = IF new_value # None /\ new_value = streams[name].current_value
                                      THEN "failed"
                                      ELSE IF new_value = None \/ new_value = ""
                                      THEN "finalize" ELSE "request",
                         ![name].current_value =
                                      IF new_value = None \/ new_value = "" THEN @ ELSE new_value]
    /\ UNCHANGED <<passVars, name, heap, tap_state>>

\* The pass of stream name ends: its bookmark is finalized.
TwoFinalize ==
    /\ streams[name].pc = "finalize"
    /\ \E fin \in FinalizeState(tap_state[name]) :
          tap_state' = [tap_state EXCEPT ![name] = fin]
    /\ streams' = [streams EXCEPT ![name].pc = "done"]
    /\ UNCHANGED <<passVars, name, heap>>

NextTwo == TwoSwitch \/ TwoBegin \/ TwoFetch \/ TwoAdvance \/ TwoFinalize

SpecTwo == InitTwo /\ [][NextTwo]_vars

----------------------------------------------------------------------------
(* One stream object used for several contexts: get_records(context) reads and
   writes the bookmark of its context (get_context_state), while the stream
   object and its attributes are shared by all of them. *)

\* Between passes the caller moves to a context that has no bookmark yet, as
\* the incremental-sync test does when it passes a context of its own.
OtherContext ==
    /\ pc = "idle"
    /\ state # EmptyDict
    /\ state' = EmptyDict
    /\ persisted' = EmptyDict
    /\ UNCHANGED <<heap, tap_state, streams, name, state_before_pass, pc,
                   boundary_reached, current_value, pagination_boundary_id, config,
                   params, resp, flattened_records, next_idx, emitted, page_start,
                   nreq, hit_req, last_next, observed, db, owed>>

NextContext == NextApi \/ OtherContext

SpecContext == InitApi /\ [][NextContext]_vars

----------------------------------------------------------------------------
(* One stream object run again after a failed pass: the caller catches the
   error, as the 401 test does, and calls get_records once more. *)

Retry ==
    /\ pc \in {"aborted", "failed"}
    /\ pc' = "idle"
    /\ UNCHANGED <<heap, tap_state, streams, name, persisted, state_before_pass,
                   boundary_reached, current_value, pagination_boundary_id, state,
                   config, params, resp, flattened_records, next_idx, emitted,
                   page_start, nreq, hit_req, last_next, observed, db, owed>>

NextRetry == NextApi \/ Retry

SpecRetry == InitApi /\ [][NextRetry]_vars

----------------------------------------------------------------------------
(* Properties *)

Count(s, P(_)) == Cardinality({i \in DOMAIN s : P(s[i])})
HasBoundaryId(row) == row[F_id] = pagination_boundary_id
PageDone == pc \in {"advance", "finalize", "idle", "failed"}
HasNextLink(response) ==
    /\ "links" \in DOMAIN response
    /\ "next" \in DOMAIN response.links
    /\ ~response.links["next"].null

\* C1: in a pass with a target boundary B, once a fetched page holds a record
\* with id B, that record is emitted exactly once in the pass, no request is
\* issued after that page, and get_next returns no cursor for it.
C1_BoundaryStopsPass ==
    hit_req # 0 =>
        /\ nreq = hit_req
        /\ pc # "request"
        /\ Count(emitted, HasBoundaryId) <= 1
        /\ PageDone => Count(emitted, HasBoundaryId) = 1
        /\ pc \in {"finalize", "idle"} => last_next = None

\* C1 witness: the boundary was found on the second page, whose next link is
\* present, and the pass is over.
C1_Witness ==
    /\ hit_req = 2
    /\ pc = "finalize"
    /\ HasNextLink(resp)
    /\ GetNext(FALSE, resp) # None
    /\ Count(emitted, HasBoundaryId) = 1

\* C2: the records emitted in a pass, over all its pages, are non-decreasing in
\* updated_at.
C2_PassAscending ==
    \A i, j \in DOMAIN emitted :
        (i < j /\ F_updated_at \in DOMAIN emitted[i] /\ F_updated_at \in DOMAIN emitted[j])
            => emitted[i][F_updated_at] <= emitted[j][F_updated_at]

Min(S) == CHOOSE t \in S : \A u \in S : t <= u
StoredBoundary == Restrict(state, BoundaryKeys)

\* C4: once an incomplete record with a created_at has been emitted, the stored
\* earliest_incomplete_created_at is the smallest created_at of all such records
\* emitted so far, in any page or pass, and the four fields are those of one of
\* the records with that created_at.
C4_BoundaryIsEarliest ==
    observed # {} =>
        /\ BoundaryKeys \subseteq DOMAIN state
        /\ state[K_created_at] = Min({o[K_created_at] : o \in observed})
        /\ StoredBoundary \in observed

\* C4 witness: the older incomplete record came on the second page of a pass
\* that had already emitted a newer one.
C4_Witness ==
    /\ pc = "idle"
    /\ nreq = 2
    /\ Len(emitted) = 2
    /\ IsIncompleteObservation(emitted[1])
    /\ IsIncompleteObservation(emitted[2])
    /\ emitted[2][F_created_at] < emitted[1][F_created_at]
    /\ state[K_id] = emitted[2][F_id]

BoundaryKept ==
    K_id \in DOMAIN state =>
        /\ BoundaryKeys \subseteq DOMAIN state'
        /\ state'[K_id] # None
        /\ state'[K_created_at] <= state[K_created_at]

\* C5: a stored boundary is never cleared and its created_at never increases,
\* over every post_process call and every state finalization.
C5_BoundaryNeverRolledBack == [][BoundaryKept]_vars

\* C5 witness: the boundary record was emitted again with a status outside the
\* incomplete set, the pass was finalized, and the boundary is still stored.
C5_Witness ==
    /\ pc = "idle"
    /\ K_id \in DOMAIN state
    /\ \E i \in DOMAIN emitted : emitted[i][F_id] = state[K_id]
    /\ \A i \in DOMAIN emitted :
          emitted[i][F_id] = state[K_id] =>
              emitted[i][F_status] \notin IncompleteStatuses(name)

PageEmitted == SubSeq(emitted, page_start + 1, Len(emitted))
StripExtracted(row) == Restrict(row, DOMAIN row \ {F_sdc_extracted_at})
Occurrences(s, x) == Cardinality({i \in DOMAIN s : s[i] = x})
SameBag(a, b) ==
    /\ Len(a) = Len(b)
    /\ \A i \in DOMAIN a : Occurrences(a, a[i]) = Occurrences(b, a[i])
FirstBoundaryIndex(records) ==
    Min({i \in DOMAIN records : records[i].id = pagination_boundary_id})

\* C6: when the page r1..rn holds the target boundary at rk, the records emitted
\* from the page are exactly r1..rk, and nothing more is emitted in the pass.
C6_EmitsThroughBoundary ==
    (hit_req # 0 /\ pc \in {"advance", "finalize"}) =>
        LET k == FirstBoundaryIndex(resp.data)
        IN /\ SameBag([i \in 1..Len(PageEmitted) |-> StripExtracted(PageEmitted[i])],
                      [i \in 1..k |-> Flatten(resp.data[i])])
           /\ nreq = hit_req
           /\ next_idx = k

\* C6 witness: a page of three resources with the boundary in the middle.
C6_Witness ==
    /\ hit_req # 0
    /\ pc = "finalize"
    /\ Len(resp.data) = 3
    /\ FirstBoundaryIndex(resp.data) = 2
    /\ resp.data[3].id # pagination_boundary_id
    /\ resp.data[1].id # resp.data[3].id

\* get_next has run on resp.
Advanced ==
    /\ nreq >= 1
    /\ \/ pc \in {"request", "failed"}
       \/ pc = "finalize" /\ flattened_records # <<>>

\* C9: without the stop signal, get_next returns the page[after] value of the
\* next link, and None when the link is null or absent, which ends the pass.
C9_GetNextReadsCursor ==
    (Advanced /\ ~boundary_reached) =>
        /\ \A c \in Cursors :
              resp.links = [next |-> NextUrl(c)] => last_next = c
        /\ ~HasNextLink(resp) => (last_next = None /\ pc = "finalize")

\* C9 witness: the first page's link gave cursor_123 and the second page's link
\* is null.
C9_Witness ==
    /\ Advanced
    /\ ~boundary_reached
    /\ nreq = 2
    /\ params["page[after]"] = "cursor_123"
    /\ resp.links = [next |-> JsonNull]
    /\ pc = "finalize"

\* C10: a next link without a page[after] value is the last page: get_next
\* returns None, the pass ends normally, and every page[after] sent is a cursor
\* a response carried.
C10_MissingCursorEndsPass ==
    /\ (Advanced /\ ~boundary_reached /\ HasNextLink(resp)
            /\ resp.links["next"] \in UrlsWithoutCursor)
          => (last_next = None /\ pc = "finalize")
    /\ "page[after]" \in DOMAIN params => params["page[after]"] \in Cursors
    /\ (nreq > 1 /\ pc \in {"parse", "emit", "advance"}) =>
          ("page[after]" \in DOMAIN params /\ params["page[after]"] = current_value)

\* C10 witness: the second page's next link has no page[after]; the pass ends
\* with the records of both pages.
C10_Witness ==
    /\ Advanced
    /\ ~boundary_reached
    /\ nreq = 2
    /\ HasNextLink(resp)
    /\ resp.links["next"] \in UrlsWithoutCursor
    /\ pc = "finalize"
    /\ Len(emitted) = 2

Perms(n) == {f \in [1..n -> 1..n] : \A a, b \in 1..n : a # b => f[a] # f[b]}

\* b is a with every hyphen replaced by an underscore.
Underscored(a, b) ==
    /\ Len(a) = Len(b)
    /\ \A i \in DOMAIN a : b[i] = IF a[i] = "-" THEN "_" ELSE a[i]

\* row is the flattened form of resource res.
RowOf(row, res) ==
    /\ row[F_id] = res.id
    /\ row[F_type] = res.type
    /\ \A a \in DOMAIN res.attributes :
          \E f \in DOMAIN row :
              /\ Underscored(res.attributes[a][1], f)
              /\ row[f] = res.attributes[a][2]
    /\ Cardinality(DOMAIN row) =
          2 + Len(res.attributes) + IF "relationships" \in DOMAIN res THEN 1 ELSE 0
    /\ "relationships" \in DOMAIN res => row[F_relationships] = res.relationships

\* The resources of the page parse_response keeps: all of them, or those up to
\* the first one with the target boundary id.
KeptCount(data) ==
    IF pagination_boundary_id # None
          /\ \E i \in DOMAIN data : data[i].id = pagination_boundary_id
    THEN FirstBoundaryIndex(data)
    ELSE Len(data)

\* C7 as stated: parse_response yields the N flattened resources of the page in
\* the API's order.
C7_YieldsAllInApiOrder ==
    pc = "unit_parsed" =>
        /\ Len(flattened_records) = Len(DataOf(resp))
        /\ \A i \in DOMAIN flattened_records :
              RowOf(flattened_records[i], DataOf(resp)[i])

\* C7 amended: parse_response yields, in ascending updated_at order, the
\* flattened forms of the resources up to and including the first one with the
\* target boundary id (all N when there is none), each with id, type and every
\* attribute under its underscored name with its value unchanged.
C7_YieldsKeptSorted ==
    pc = "unit_parsed" =>
        LET data == DataOf(resp)
            k == KeptCount(data)
        IN /\ Len(flattened_records) = k
           /\ \E f \in Perms(k) :
                 \A i \in 1..k : RowOf(flattened_records[f[i]], data[i])
           /\ \A i, j \in 1..k :
                 i < j => SortKey(flattened_records[i]) <= SortKey(flattened_records[j])

\* C7 witness: a page of three resources without the boundary, the first of
\* which has hyphenated attribute names and is yielded last.
C7_Witness ==
    /\ pc = "unit_parsed"
    /\ Len(DataOf(resp)) = 3
    /\ KeptCount(DataOf(resp)) = 3
    /\ DataOf(resp)[1] = Resource("inq_9", "completed", 4, 4)
    /\ flattened_records[3][F_id] = "inq_9"
    /\ flattened_records[3][F_updated_at] = 4
    /\ flattened_records[1][F_id] # "inq_9"

StopSignalSticks ==
    boundary_reached =>
        /\ boundary_reached'
        /\ UnitGetNext => last_next' = None

\* C8: once set_boundary_reached has been called, the flag stays raised and
\* every later get_next returns None, whatever the response holds.
C8_StopSignalSticky == [][StopSignalSticks]_vars

\* C8 witness: get_next was called with the signal raised on a response whose
\* next link carries a cursor, and returned None.
C8_Witness ==
    /\ boundary_reached
    /\ nreq = 1
    /\ last_next = None
    /\ HasNextLink(resp)
    /\ resp.links["next"] = NextUrl("cursor_123")

EmittedIds == {emitted[i][F_id] : i \in DOMAIN emitted}

\* C3: every record emitted as incomplete (with a created_at) in some completed
\* pass is emitted again in every later completed pass.
C3_IncompleteRefetched == pc = "idle" => owed \subseteq EmittedIds

\* get_url_params has just been called for the first page of a pass.
FirstPageParams == pc = "get_url_params" /\ current_value = None

\* The config holds <resource>.start_id for this stream.
StartIdConfigured ==
    /\ name \in DOMAIN config
    /\ config[name].is_dict
    /\ "start_id" \in DOMAIN config[name].items

SentBoundary == IF "page[before]" \in DOMAIN params THEN params["page[before]"] ELSE None

\* C11: the starting boundary of a pass is the persisted earliest_incomplete_id
\* when there is one, also when a start ID is configured; otherwise the
\* configured <resource>.start_id when there is one; otherwise none.
C11_StartingBoundary ==
    FirstPageParams =>
        SentBoundary = IF K_id \in DOMAIN state THEN state[K_id]
                       ELSE IF StartIdConfigured THEN config[name].items.start_id
                       ELSE None

\* C11 witness: a boundary is persisted and another start ID is configured; the
\* first page is requested before the persisted one.
C11_Witness ==
    /\ FirstPageParams
    /\ K_id \in DOMAIN state
    /\ StartIdConfigured
    /\ config[name].items.start_id # state[K_id]
    /\ SentBoundary = state[K_id]
    /\ pagination_boundary_id = state[K_id]

\* The row post_process was called with in this step.
GivenRow == flattened_records'[1]

OlderOrFirst(row, st) ==
    \/ K_created_at \notin DOMAIN st
    \/ ~Truthy(st[K_created_at])
    \/ row[F_created_at] < st[K_created_at]

BoundaryUpdateRule ==
    (pc' = "post_process" /\ GetStr(GivenRow, F_status) \in IncompleteStatuses(name)
        /\ F_created_at \in DOMAIN GivenRow /\ Truthy(GivenRow[F_created_at])) =>
        IF OlderOrFirst(GivenRow, state)
        THEN /\ state'[K_id] = GivenRow[F_id]
             /\ state'[K_status] = GivenRow[F_status]
             /\ state'[K_created_at] = GivenRow[F_created_at]
             /\ state'[K_updated_at] = GetTime(GivenRow, F_updated_at)
             /\ Restrict(state', DOMAIN state' \ BoundaryKeys)
                    = Restrict(state, DOMAIN state \ BoundaryKeys)
        ELSE state' = state

\* C12: for a record with an incomplete status and a created_at, post_process
\* overwrites the four earliest_incomplete_* fields with the record's values if
\* and only if no created_at is stored or the record's is strictly smaller.
C12_OverwritesIffOlder == [][BoundaryUpdateRule]_vars

\* C12 witness: two incomplete records of one created_at were processed, then an
\* older one, whose values are the stored boundary.
C12_Witness ==
    /\ pc = "post_process"
    /\ Cardinality(observed) = 3
    /\ Cardinality({o \in observed : o[K_created_at] = 2}) = 2
    /\ flattened_records[1][F_id] = "inq_3"
    /\ StoredBoundary = BoundaryOf(flattened_records[1])


SecondApplicationChangesNothing ==
    (pc = "post_process" /\ pc' = "post_process" /\ flattened_records' = flattened_records) =>
        Restrict(state', BoundaryKeys) = Restrict(state, BoundaryKeys)

\* C13: applying the boundary update twice in a row with the same record leaves
\* the four earliest_incomplete_* fields as they were after the first
\* application.
C13_UpdateIdempotent == [][SecondApplicationChangesNothing]_vars

\* C13 witness: post_process was called twice in a row with one incomplete
\* record, whose values are the stored boundary.
C13_Witness ==
    /\ pc = "post_process"
    /\ next_idx = 2
    /\ nreq = 2
    /\ Cardinality(observed) = 1
    /\ K_progress_markers \in DOMAIN state
    /\ GetTime(flattened_records[1], F_created_at) = 1
    /\ StoredBoundary = BoundaryOf(flattened_records[1])

IsCustomKey(k) == StartsWith(k, K_earliest_incomplete_)
StandardPart(st) == Restrict(st, {k \in DOMAIN st : ~IsCustomKey(k)})

FinalizeKeepsCustomFields ==
    pc' = "finalize_state" =>
        /\ \A k \in DOMAIN state :
              IsCustomKey(k) => (k \in DOMAIN state' /\ state'[k] = state[k])
        /\ \E fin \in ParentFinalize(state) : StandardPart(state') = StandardPart(fin)

\* C14: after _finalize_state every earliest_incomplete_* key of the state is
\* present with its value unchanged, and the other fields are what the
\* runtime's own finalization leaves.
C14_FinalizeKeepsBoundary == [][FinalizeKeepsCustomFields]_vars

\* C14 witness: a state with progress markers and a stored boundary was
\* finalized: the marker is now the replication key value and the boundary is
\* there.
C14_Witness ==
    /\ pc = "finalize_state"
    /\ nreq = 1
    /\ BoundaryKeys \subseteq DOMAIN state
    /\ K_progress_markers \notin DOMAIN state
    /\ K_replication_key_value \in DOMAIN state
    /\ state[K_replication_key_value] = 3

SecondFinalizeKeepsCustomFields ==
    (pc = "finalize_state" /\ pc' = "finalize_state") =>
        CustomFields(state') = CustomFields(state)

\* C15: calling _finalize_state twice in a row leaves the same
\* earliest_incomplete_* keys and values after the second call as after the
\* first.
C15_FinalizeIdempotent == [][SecondFinalizeKeepsCustomFields]_vars

\* C15 witness: a state with progress markers and a stored boundary was
\* finalized twice in a row, with no other call made.
C15_Witness ==
    /\ pc = "finalize_state"
    /\ nreq = 2
    /\ params = EmptyDict
    /\ emitted = <<>>
    /\ BoundaryKeys \subseteq DOMAIN state
    /\ K_replication_key_value \in DOMAIN state
    /\ state[K_replication_key_value] = 3

\* The replication cursor and the earliest_incomplete_* fields of a bookmark.
Committed(st) == Restrict(st, DOMAIN st \cap (BoundaryKeys \cup {K_replication_key_value}))

\* C16: when a page request is answered with 401 or 403 the pass is aborted and
\* the persisted state of the resource is the one from before the pass, also
\* when pages of the pass were emitted before.
C16_AuthErrorCommitsNothing ==
    pc = "aborted" => Committed(persisted) = Committed(state_before_pass)

\* The config schema's top-level start ID of a resource.
TopLevelStartKey(stream) ==
    IF stream = "inquiries" THEN "start_inquiry_id" ELSE "start_case_id"

\* C17: with start_inquiry_id (for cases: start_case_id) configured and no
\* boundary persisted, the first request of the pass carries page[before] equal
\* to the configured ID.
C17_TopLevelStartIdUsed ==
    (FirstPageParams /\ K_id \notin DOMAIN state /\ TopLevelStartKey(name) \in DOMAIN config) =>
        SentBoundary = config[TopLevelStartKey(name)]

PagingParams == {"page[size]", "page[before]", "page[after]"}

\* C18: with a replication_key_value persisted, the parameters of the first
\* request of the pass contain a start filter on the replication field.
C18_CursorFiltersFirstRequest ==
    (FirstPageParams /\ K_replication_key_value \in DOMAIN state) =>
        DOMAIN params \ PagingParams # {}

\* C20: post_process returns the record it is given with _sdc_extracted_at added
\* and every field of the given record present and unchanged; no record is
\* dropped and no field removed or renamed.
C20_PostProcessKeepsFields ==
    pc = "post_process" =>
        /\ Len(emitted) = 1
        /\ DOMAIN emitted[1] = DOMAIN flattened_records[1] \cup {F_sdc_extracted_at}
        /\ emitted[1][F_sdc_extracted_at] = Now
        /\ \A k \in DOMAIN flattened_records[1] : emitted[1][k] = flattened_records[1][k]

\* C20 witness: a record with attributes of both spellings and relationships
\* went through post_process.
C20_Witness ==
    /\ pc = "post_process"
    /\ F_relationships \in DOMAIN flattened_records[1]
    /\ <<"reference", "_", "id">> \in DOMAIN flattened_records[1]
    /\ emitted[1][F_relationships] = flattened_records[1][F_relationships]
    /\ F_sdc_extracted_at \notin DOMAIN flattened_records[1]
    /\ F_sdc_extracted_at \in DOMAIN emitted[1]

\* A pass of the running stream on its own, page by page, as in Spec: the
\* paginator's flag and the target boundary ID are plain values.
AloneStart(bookmark) ==
    [state |-> bookmark, boundary |-> None, flag |-> NewPaginatorFlag, token |-> None,
     emitted |-> <<>>, pc |-> "request"]

AlonePage(ctx, response) ==
    LET r == GetUrlParams(ctx.state, config, ctx.token, ctx.boundary)
        p == ParseResponse(response, r.boundary, ctx.flag)
        e == EmitAll(p.records, ctx.state)
        new_value == GetNext(p.flag, response)
        ends == p.records = <<>> \/ new_value = None \/ new_value = ""
    IN [state |-> e.state, boundary |-> r.boundary, flag |-> p.flag,
        token |-> IF ends THEN ctx.token ELSE new_value,
        emitted |-> ctx.emitted \o e.rows,
        pc |-> IF ends THEN "finalize"
               ELSE IF new_value = ctx.token THEN "failed" ELSE "request"]

RECURSIVE AlonePass(_, _)
AlonePass(ctx, pages) ==
    IF pages = <<>> THEN ctx ELSE AlonePass(AlonePage(ctx, Head(pages)), Tail(pages))

\* What the running stream has emitted and stored is what its pass gives alone.
SameAsAlone ==
    LET c == streams[name]
        a == AlonePass(AloneStart(c.start), c.pages)
    IN /\ (c.pc \in {"request", "finalize", "failed"} /\ c.pages # <<>>) =>
             /\ a.pc = c.pc
             /\ a.token = c.current_value
             /\ a.emitted = c.emitted
             /\ a.state = tap_state[name]
             /\ a.flag = GetAttr(heap, PaginatorObject(name), "_boundary_reached")
             /\ a.boundary = GetAttr(heap, StreamObject(name), "_pagination_boundary_id")
       /\ c.pc = "done" =>
             /\ a.emitted = c.emitted
             /\ tap_state[name] \in FinalizeState(a.state)

\* A step of the running stream leaves the other stream's flag, target boundary
\* ID, bookmark and pass as they are.
OtherStreamUntouched ==
    \A other \in StreamNames \ {name} :
        /\ GetAttr(heap', PaginatorObject(other), "_boundary_reached")
              = GetAttr(heap, PaginatorObject(other), "_boundary_reached")
        /\ GetAttr(heap', StreamObject(other), "_pagination_boundary_id")
              = GetAttr(heap, StreamObject(other), "_pagination_boundary_id")
        /\ tap_state'[other] = tap_state[other]
        /\ streams'[other] = streams[other]

\* C19: the inquiries and cases pipelines share no mutable state: under any
\* interleaving, a step of one stream changes neither the paginator flag, the
\* target boundary ID nor the bookmark of the other, and each stream's emitted
\* records and final state are those of its pass run alone.
C19_StreamsIndependent == []SameAsAlone /\ [][OtherStreamUntouched]_vars

\* C19 witness: the inquiries pass has raised its stop signal on a page that has
\* a next link and has not advanced yet, while the cases pass is between two
\* pages with its own target boundary ID and its flag down.
C19_Witness ==
    /\ name = "cases"
    /\ streams["inquiries"].pc = "advance"
    /\ GetAttr(heap, PaginatorObject("inquiries"), "_boundary_reached")
    /\ GetAttr(heap, StreamObject("inquiries"), "_pagination_boundary_id") = "inq_3"
    /\ HasNextLink(streams["inquiries"].pages[1])
    /\ streams["cases"].pc = "request"
    /\ Len(streams["cases"].pages) = 1
    /\ ~GetAttr(heap, PaginatorObject("cases"), "_boundary_reached")
    /\ GetAttr(heap, StreamObject("cases"), "_pagination_boundary_id") = "case_5"

\* A pass that emitted records is over and its final STATE message is written.
PassEmittedAndDone == pc = "idle" /\ emitted # <<>>

\* C21 as stated: after a pass in which a record was emitted, the persisted
\* state holds earliest_incomplete_id, whatever the statuses of the records.
C21_BoundaryAfterAnyEmission ==
    PassEmittedAndDone => K_id \in DOMAIN persisted

\* C21 amended: after a pass in which a record was emitted, the persisted state
\* holds earliest_incomplete_id if and only if a record with an incomplete
\* status and a created_at has been emitted in this pass or an earlier one.
C21_BoundaryIffIncompleteEmitted ==
    PassEmittedAndDone => (K_id \in DOMAIN persisted <=> observed # {})

\* C21 witness: a first pass of two pages emitted only complete records; the
\* replication cursor is persisted and no boundary is.
C21_Witness ==
    /\ PassEmittedAndDone
    /\ nreq = 2
    /\ Len(emitted) = 2
    /\ \A i \in DOMAIN emitted : emitted[i][F_status] = "completed"
    /\ K_replication_key_value \in DOMAIN persisted
    /\ K_id \notin DOMAIN persisted

\* A request with a page cursor is sent in this step.
CursorRequest == pc = "request" /\ pc' = "parse" /\ current_value # None

CursorRequestRule ==
    CursorRequest =>
        /\ DOMAIN params' = {"page[size]", "page[after]"}
        /\ params'["page[after]"] = last_next
        /\ pagination_boundary_id' = pagination_boundary_id

\* C22: parameters built with a page cursor carry page[after] equal to the
\* cursor get_next returned for the previous response and no page[before], and
\* the call leaves the pass's target boundary ID as it is, whatever boundary
\* the state holds by then.
C22_CursorSkipsBoundary == [][CursorRequestRule]_vars

\* C22 witness: the second request of a pass that started without a boundary
\* was sent with page[after] while the state holds a boundary stored from the
\* first page.
C22_Witness ==
    /\ pc = "parse"
    /\ nreq = 2
    /\ K_id \in DOMAIN state
    /\ K_id \notin DOMAIN state_before_pass
    /\ pagination_boundary_id = None
    /\ params["page[after]"] = "cursor_456"

\* C23: on the first-page request of a pass, a starting boundary ID that exists
\* is sent as page[before] and becomes the pass's target boundary; when none
\* exists the parameters carry neither page[before] nor page[after].
C23_FirstPageInjectsBoundary ==
    FirstPageParams =>
        LET boundary_id == GetStartingIncompleteId(state, config)
        IN IF boundary_id # None
           THEN /\ DOMAIN params = {"page[size]", "page[before]"}
                /\ params["page[before]"] = boundary_id
                /\ pagination_boundary_id = boundary_id
           ELSE DOMAIN params = {"page[size]"}

\* C23 witness: the cases stream, with no boundary persisted and cases.start_id
\* configured, has built its first-page parameters.
C23_Witness ==
    /\ FirstPageParams
    /\ name = "cases"
    /\ K_id \notin DOMAIN state
    /\ StartIdConfigured
    /\ params["page[before]"] = "case_1"
    /\ pagination_boundary_id = "case_1"

\* A pass that started with no persisted boundary and no configured start ID.
NoStartingBoundary == K_id \notin DOMAIN state_before_pass /\ ~StartIdConfigured

\* C24: a pass that starts with no starting boundary never halts on an ID
\* match and ends only on a page without next link, also when the same stream
\* object ran an earlier pass with a target boundary ID.
C24_NoBoundaryNoStop ==
    (pc \in {"emit", "advance", "finalize"} /\ NoStartingBoundary) =>
        /\ hit_req = 0
        /\ ~boundary_reached
        /\ (pc = "finalize" => ~HasNextLink(resp))

\* The next link of a response carries a page cursor.
UsableNextLink(response) ==
    /\ HasNextLink(response)
    /\ \E i \in DOMAIN response.links["next"].query :
          /\ response.links["next"].query[i][1] = "page[after]"
          /\ response.links["next"].query[i][2] # ""

\* The last fetched page holds the record of the target boundary.
BoundaryEnd ==
    /\ boundary_reached
    /\ hit_req = nreq
    /\ pagination_boundary_id # None
    /\ \E i \in DOMAIN DataOf(resp) : resp.data[i].id = pagination_boundary_id

ExhaustedEnd == ~boundary_reached /\ ~UsableNextLink(resp)

\* A page without records ends the request loop although it names a next page.
EmptyPageEnd == ~boundary_reached /\ DataOf(resp) = <<>> /\ UsableNextLink(resp)

RepeatedCursorEnd ==
    /\ ~boundary_reached
    /\ UsableNextLink(resp)
    /\ last_next = current_value

\* C25 as stated: a pass ends either on its boundary or on a page without
\* usable next link.
C25_TwoEndStates ==
    pc \in {"finalize", "failed"} => BoundaryEnd \/ ExhaustedEnd

PassEnds ==
    /\ pc = "finalize" => BoundaryEnd \/ ExhaustedEnd \/ EmptyPageEnd
    /\ pc = "failed" => RepeatedCursorEnd
    /\ boundary_reached <=> hit_req # 0
    /\ (pc \in {"advance", "finalize", "failed"} /\ hit_req = 0) =>
           Len(PageEmitted) = Len(DataOf(resp))

\* The steps a pass can still take, counted from the pages the API has left:
\* every step of a pass lowers it.
PassRank ==
    IF pc = "advance" THEN 6 ELSE IF pc = "request" THEN 5 ELSE IF pc = "parse" THEN 4
    ELSE IF pc = "emit" THEN 3 ELSE IF pc = "finalize" THEN 1 ELSE 0
StepsLeft == 10 * (MaxRecords - Len(emitted)) + PassRank
PassRunning == pc \in {"request", "parse", "emit", "advance", "finalize"}
PassStepGetsCloser == PassRunning => StepsLeft' < StepsLeft
\* The guards of the steps of a pass: in each of its states one of them holds.
PassNotStuck ==
    /\ pc = "request" => Responses(MaxRecords - Len(emitted)) # {}
    /\ pc = "emit" => next_idx < Len(flattened_records)
    /\ pc = "finalize" => FinalizeState(state) # {}

\* C25: a started pass ends (it is never stuck and each of its steps brings its
\* end closer); it ends on the page that holds the record of its target
\* boundary, on a page without usable next link, on an empty page, or with the
\* runtime's error for a repeated cursor; and as long as no page holds the
\* target record every record of every fetched page is emitted.
C25_PassTerminates ==
    /\ []PassEnds
    /\ []PassNotStuck
    /\ [][PassStepGetsCloser]_vars

\* C25 witness: a pass with a target boundary whose record is in no page has
\* fetched two pages and emitted all their records, and ends on the second one,
\* which has no next link.
C25_Witness ==
    /\ pc = "finalize"
    /\ pagination_boundary_id # None
    /\ hit_req = 0
    /\ nreq = 2
    /\ Len(emitted) = MaxRecords
    /\ ExhaustedEnd

FirstRequestOfPass == pc = "request" /\ nreq = 0
TargetStays ==
    (pc # "idle" /\ ~FirstRequestOfPass) => pagination_boundary_id' = pagination_boundary_id

\* C26: the target boundary ID of a pass is fixed by its first-page request; no
\* later step of the pass changes it, also when post_process has overwritten
\* the stored earliest_incomplete_id with an older record in between.
C26_TargetFixedForPass == [][TargetStays]_vars

\* C26 witness: the second page of a pass is being read with the target the
\* pass started with, while the stored boundary is already another record.
C26_Witness ==
    /\ pc = "emit"
    /\ nreq = 2
    /\ K_id \in DOMAIN state_before_pass
    /\ pagination_boundary_id = state_before_pass[K_id]
    /\ state[K_id] # pagination_boundary_id

\* C27: at the first request of a pass the stop signal is not raised and no
\* page cursor is carried over, however the previous pass of the stream ended.
C27_FreshPaginator ==
    /\ FirstRequestOfPass => ~boundary_reached /\ current_value = None
    /\ (pc = "parse" /\ nreq = 1) => "page[after]" \notin DOMAIN params

\* C27 witness: the previous pass had a target boundary and failed with 401 on
\* a request that carried a page cursor; the next pass is at its first request.
C27_Witness ==
    /\ FirstRequestOfPass
    /\ "status_code" \in DOMAIN resp
    /\ "page[after]" \in DOMAIN params
    /\ pagination_boundary_id # None
    /\ ~boundary_reached
    /\ current_value = None

\* A record that is no candidate for the boundary: its status is not in the
\* incomplete set, or it carries no created_at.
OutsideBookkeeping(row) ==
    \/ GetStr(row, F_status) \notin IncompleteStatuses(name)
    \/ ~Truthy(GetTime(row, F_created_at))

EmittedWithoutBookkeeping ==
    (pc' = "post_process" /\ OutsideBookkeeping(GivenRow)) =>
        /\ Len(emitted') = 1
        /\ StripExtracted(emitted'[1]) = GivenRow
        /\ Restrict(state', DOMAIN state' \cap BoundaryKeys)
               = Restrict(state, DOMAIN state \cap BoundaryKeys)

\* C28: a record whose status is not in the incomplete set, or that has an
\* incomplete status and no created_at, is still emitted, and post_process
\* leaves the four earliest_incomplete_* fields of the state as they were.
C28_NonCandidateLeavesBoundary == [][EmittedWithoutBookkeeping]_vars

\* C28 witness: with the boundary of inq_5 stored, the needs_review record
\* inq_7 without created_at was processed: it is emitted and inq_5 is still
\* the stored boundary.
C28_Witness ==
    /\ pc = "post_process"
    /\ flattened_records[1][F_id] = "inq_7"
    /\ GetStr(flattened_records[1], F_status) \in IncompleteStatuses(name)
    /\ F_created_at \notin DOMAIN flattened_records[1]
    /\ emitted[1][F_id] = "inq_7"
    /\ K_id \in DOMAIN state
    /\ state[K_id] = "inq_5"

\* The updated_at of a resource as the API returns it, NoTime when it has none.
UpdatedAtOf(res) ==
    LET S == {a \in DOMAIN res.attributes : Underscored(res.attributes[a][1], F_updated_at)}
    IN IF S = {} THEN NoTime ELSE res.attributes[CHOOSE a \in S : TRUE][2]

\* C29: a record without updated_at, or with a null one, is still yielded, and
\* in the sorted output it comes before every record that has an updated_at.
C29_MissingKeySortsFirst ==
    pc = "unit_parsed" =>
        LET data == DataOf(resp)
        IN /\ \A i \in 1..KeptCount(data) :
                 ~Truthy(UpdatedAtOf(data[i])) =>
                     \E j \in DOMAIN flattened_records : RowOf(flattened_records[j], data[i])
           /\ \A i, j \in DOMAIN flattened_records :
                 (~Truthy(GetTime(flattened_records[i], F_updated_at))
                      /\ Truthy(GetTime(flattened_records[j], F_updated_at))) => i < j

\* C29 witness: the page lists inq_9 first, then a resource without updated-at
\* and one with a null updated-at; both are yielded before inq_9.
C29_Witness ==
    /\ pc = "unit_parsed"
    /\ Len(DataOf(resp)) = 3
    /\ DataOf(resp)[1] = Resource("inq_9", "completed", 4, 4)
    /\ Len(flattened_records) = 3
    /\ flattened_records[1][F_id] = "inq_1"
    /\ F_updated_at \notin DOMAIN flattened_records[1]
    /\ flattened_records[2][F_id] = "inq_2"
    /\ flattened_records[2][F_updated_at] = NoTime
    /\ flattened_records[3][F_id] = "inq_9"

\* Where the stable ascending sort puts the i-th kept resource of the page.
SortedPosition(data, k, i) ==
    Cardinality({j \in 1..k : \/ UpdatedAtOf(data[j]) < UpdatedAtOf(data[i])
                              \/ UpdatedAtOf(data[j]) = UpdatedAtOf(data[i]) /\ j <= i})

\* C30: the records parse_response yields for a page are the flattened records
\* kept from it, rearranged in ascending updated_at order, with records of
\* equal updated_at in their API order.
C30_StableAscendingPermutation ==
    pc = "unit_parsed" =>
        LET data == DataOf(resp)
            k == KeptCount(data)
        IN /\ Len(flattened_records) = k
           /\ \A i \in 1..k :
                 RowOf(flattened_records[SortedPosition(data, k, i)], data[i])

\* C30 witness: the scenario page without target: inq_5 and inq_3 have the same
\* updated_at and are yielded in the API's order, after inq_7 and before inq_9.
C30_Witness ==
    /\ pc = "unit_parsed"
    /\ DataOf(resp) = ScenarioPage
    /\ pagination_boundary_id = None
    /\ flattened_records[1][F_id] = "inq_7"
    /\ flattened_records[2][F_id] = "inq_5"
    /\ flattened_records[3][F_id] = "inq_3"
    /\ flattened_records[4][F_id] = "inq_9"

\* The boundary fields of st are all absent, or they are the four values of one
\* observed incomplete record.
BoundaryFromOneRecord(st) ==
    LET present == DOMAIN st \cap BoundaryKeys
    IN \/ present = {}
       \/ /\ present = BoundaryKeys
          /\ Restrict(st, BoundaryKeys) \in observed
          /\ st[K_status] \in IncompleteStatuses(name)

\* C31: starting without boundary, in every reachable state the four
\* earliest_incomplete_* fields are all absent or all taken from one record
\* observation: id and created_at are present together and the status is one of
\* the resource's incomplete statuses; the same holds for the state last written.
C31_BoundaryFieldsTogether ==
    /\ BoundaryFromOneRecord(state)
    /\ BoundaryFromOneRecord(persisted)
    /\ K_id \in DOMAIN state <=> K_created_at \in DOMAIN state

\* C31 witness: two incomplete records were observed, the pass is finalized and
\* the four stored fields are those of inq_3 as it was observed.
C31_Witness ==
    /\ pc = "idle"
    /\ Cardinality(observed) = 2
    /\ BoundaryKeys \subseteq DOMAIN state
    /\ state[K_id] = "inq_3"
    /\ state[K_status] = "created"
    /\ state[K_created_at] = 1
    /\ state[K_updated_at] = 1
    /\ persisted = state

\* The record given to post_process is the stored boundary record, still
\* incomplete, with the created_at that is stored and another status or
\* updated_at than the stored ones.
BoundaryRecordSeenAgain ==
    /\ pc' = "post_process"
    /\ BoundaryKeys \subseteq DOMAIN state
    /\ GivenRow[F_id] = state[K_id]
    /\ GetStr(GivenRow, F_status) \in IncompleteStatuses(name)
    /\ Truthy(GetTime(GivenRow, F_created_at))
    /\ GetTime(GivenRow, F_created_at) = state[K_created_at]
    /\ \/ GetStr(GivenRow, F_status) # state[K_status]
       \/ GetTime(GivenRow, F_updated_at) # state[K_updated_at]

StoredObservationKept ==
    BoundaryRecordSeenAgain =>
        /\ state'[K_status] = state[K_status]
        /\ state'[K_updated_at] = state[K_updated_at]

\* C32: when the stored boundary record is emitted again, still incomplete and
\* with the same created_at but another status or updated_at, the stored
\* earliest_incomplete_status and earliest_incomplete_updated_at keep the values
\* of the first observation.
C32_BoundaryNotRefreshed == [][StoredObservationKept]_vars

\* C32 witness: inq_5 is stored as pending with updated_at 3; it was processed
\* again as needs_review with updated_at 4 and the stored values are the old ones.
C32_Witness ==
    /\ pc = "post_process"
    /\ emitted[1][F_id] = "inq_5"
    /\ emitted[1][F_status] = "needs_review"
    /\ emitted[1][F_created_at] = 2
    /\ emitted[1][F_updated_at] = 4
    /\ BoundaryKeys \subseteq DOMAIN state
    /\ state[K_id] = "inq_5"
    /\ state[K_status] = "pending"
    /\ state[K_created_at] = 2
    /\ state[K_updated_at] = 3

\* The status is, letter for letter, one of the resource's incomplete statuses.
ExactIncompleteStatus(status) ==
    IF name = "inquiries" THEN status \in {"created", "pending", "needs_review"}
    ELSE status = "Open"

ExactStatusRule ==
    pc' = "post_process" =>
        LET exact == ExactIncompleteStatus(GetStr(GivenRow, F_status))
        IN /\ ~exact => Restrict(state', DOMAIN state' \cap BoundaryKeys)
                            = Restrict(state, DOMAIN state \cap BoundaryKeys)
           /\ (exact /\ Truthy(GetTime(GivenRow, F_created_at))
                     /\ K_created_at \notin DOMAIN state) =>
                  (K_id \in DOMAIN state' /\ state'[K_id] = GivenRow[F_id])

C34_PageSizeAlwaysNoSort ==
    params # EmptyDict =>
        /\ "page[size]" \in DOMAIN params
        /\ params["page[size]"] = IF "page_size" \in DOMAIN config
                                  THEN config["page_size"] ELSE 100
        /\ "sort" \notin DOMAIN params
        /\ \/ DOMAIN params = {"page[size]"}
           \/ DOMAIN params = {"page[size]", "page[after]"}
           \/ DOMAIN params = {"page[size]", "page[before]"}

\* C34 witness: with page_size 50 configured, the parameters of a later page
\* were built: page[size] 50 and the cursor.
C34_Witness ==
    /\ pc = "get_url_params"
    /\ current_value = "cursor_456"
    /\ "page_size" \in DOMAIN config
    /\ config["page_size"] = 50
    /\ params = [k \in {"page[size]", "page[after]"} |->
                    IF k = "page[size]" THEN 50 ELSE "cursor_456"]

====
